---- MODULE Spec2Model ----
(***************************************************************************)
(* Function lifecycle and execution dispatch of the Vajra API gateway.     *)
(*                                                                         *)
(* Three gateways of the repository are modelled, selected once at         *)
(* start-up by the variable server:                                        *)
(*   "main"  : src/api-gateway/main.py, multi-tenant, Firestore documents  *)
(*             with the per-user functions_memory_store as a fallback and   *)
(*             Cloud Storage blobs for the uploaded bundles;                *)
(*   "advanced" : src/api-gateway/main_advanced.py, whose create, get,     *)
(*             list, version and trigger handlers are those of main.py      *)
(*             and whose deploy task and delete handler address the stores  *)
(*             without a tenant;                                            *)
(*   "local" : src/api-gateway/main_local.py, the development server that  *)
(*             keeps everything in three dictionaries.                      *)
(*                                                                         *)
(* A request handler is one action: the handlers of main.py hold no         *)
(* suspension point between their reads and writes of the stores.  The     *)
(* background deploy task of main.py is two steps, split at its            *)
(* asyncio.sleep; the one of main_local.py is the step after its sleep.    *)
(* Calls to the external services (Firestore, Cloud Storage, Cloud         *)
(* Logging) succeed or raise, chosen per call.                             *)
(***************************************************************************)
EXTENDS Integers, Sequences, FiniteSets, TLC

\* ------------------------------------------------------------- bounds
\* uuid4 values the model hands out: the number of creates that store a record
MaxIds == 2
\* invocations counted for one function record
MaxInvokes == 2
\* CreateVersion calls on one record of the local server
MaxVersions == 2
\* calls to Firestore, Cloud Storage and Cloud Logging that raise in one run
MaxFaults == 1

\* ------------------------------------------------------------- inputs
Tenants == {"alice", "bob"}
\* the tenants that create and delete functions in Spec
Callers == {"alice"}
\* the tenants that invoke functions in Spec
Invokers == Tenants
\* the function name of the requests: a name equal to the id of the tenant that
\* creates it, the one case in which the handlers that address the stores
\* without a tenant (create_function_version, delete_function of
\* main_advanced.py) find an entry under the name
Names == {"alice"}
Payloads == {"Vajra"}
Handlers == {"main"}
Timeouts == {10}

\* RUNTIMES.keys() of main.py and main_local.py (the two tables are equal)
PythonRuntimes == {"python3.8", "python3.9", "python3.10", "python3.11", "python3.12"}
NodejsRuntimes == {"nodejs16", "nodejs18", "nodejs20"}
RUNTIMES ==
    PythonRuntimes \cup NodejsRuntimes
      \cup {"go1.19", "go1.20", "go1.21", "java11", "java17", "java21",
            "rust1.70", "dotnet6", "dotnet8"}

\* uploaded bundles: the files of the zip, the symbols main.py defines and
\* whether the handler raises when called
BundleHello   == [files |-> {"main.py"}, symbols |-> {"main"}, raises |-> FALSE]
BundleNoEntry == [files |-> {"index.js"}, symbols |-> {}, raises |-> FALSE]
\* a python bundle whose handler raises when it is called
BundleRaises  == [files |-> {"main.py"}, symbols |-> {"main"}, raises |-> TRUE]

\* the uploads a client makes: a runtime string with a bundle
Uploads ==
    {<<"python3.9", BundleHello>>, <<"python3.9", BundleNoEntry>>,
     <<"python3.9", BundleRaises>>,
     <<"nodejs18", BundleNoEntry>>, <<"go1.21", BundleHello>>,
     <<"cobol99", BundleHello>>}

\* outcomes of the node child process of execute_nodejs_function
NodeOutcomes == {"ok", "handler_error", "nonzero", "badout", "timeout"}

\* what a raising python handler raises: a subclass of Exception, or
\* SystemExit (sys.exit() in user code), which derives from BaseException only
PythonOutcomes == {"exception", "system_exit"}

\* the absent value: a missing document, dict.get() returning None
None == [none |-> TRUE]

VARIABLES
    server,                 \* which gateway runs: "main", "advanced" or "local"
    db,                     \* main.py: the Firestore client exists (TRUE) or is None
    firestore,              \* main.py: documents users/{t}/functions/{n}
    functions_memory_store, \* main.py: functions_memory_store[user_id][name]
    blobs,                  \* main.py: objects of the Cloud Storage bucket
    cloud_logs,             \* main.py: entries written through logging_client
    function_triggers,      \* main.py: names with a document in function_triggers
    workspaces,             \* main.py: temporary directories of execute_function on disk
    functions_store,        \* main_local.py: functions_store[name]
    function_versions,      \* main_local.py: function_versions[name]
    function_logs,          \* main_local.py: function_logs[name]
    creating,               \* main_local.py: create_function calls awaiting code.read()
    tasks,                  \* background deploy tasks not yet finished
    nextId,                 \* next uuid4 value
    calls,                  \* per function: invocations served since it was created
    faults,                 \* external calls that have raised so far
    resp                    \* the step just taken: request, response and print lines

vars == <<server, db, firestore, functions_memory_store, blobs,
          cloud_logs, function_triggers, workspaces, functions_store, function_versions, function_logs,
          creating, tasks, nextId, calls, faults, resp>>

mainVars == <<firestore, functions_memory_store, blobs, cloud_logs>>
dependentVars == <<function_triggers>>
diskVars == <<workspaces>>
localVars == <<functions_store, function_versions, function_logs, creating>>
fixedVars == <<server, db>>

\* the function names of the requests in SpecListing: two functions of one
\* tenant, so that one can be in Firestore and the other in memory only
ListingNames == Names \cup {"report"}

Keys == Tenants \X ListingNames

\* ------------------------------------------------------------- helpers
\* get_user_collection + document(name): the key of a tenant's document
get_user_collection(user_id, name) == <<user_id, name>>

\* a faulty variant of BlobPath: the name does not carry the function id
BlobPathShared(user_id, name, version, function_id) ==
    <<user_id, name, version, 0>>

\* the blob name f"users/{user_id}/{name}/v{version}/{function_id}.zip"
BlobPath(user_id, name, version, function_id) ==
    <<user_id, name, version, function_id>>

\* list_blobs(prefix=f"users/{user_id}/{name}/")
BlobsWithPrefix(user_id, name) ==
    {b \in blobs : b.path[1] = user_id /\ b.path[2] = name}

\* a faulty variant of FunctionData: the counters start at 1
FunctionDataCounted(function_id, user_id, name, runtime, handler, timeout) ==
    [id |-> function_id, name |-> name, runtime |-> runtime, handler |-> handler,
     timeout |-> timeout, version |-> 1, status |-> "deploying",
     user_id |-> user_id,
     code_path |-> BlobPath(user_id, name, 1, function_id),
     invocation_count |-> 1, error_count |-> 1,
     endpoint |-> "None", error |-> "None"]

\* function_data as create_function of main.py builds it
FunctionData(function_id, user_id, name, runtime, handler, timeout) ==
    [id |-> function_id, name |-> name, runtime |-> runtime, handler |-> handler,
     timeout |-> timeout, version |-> 1, status |-> "deploying",
     user_id |-> user_id,
     code_path |-> BlobPath(user_id, name, 1, function_id),
     invocation_count |-> 0, error_count |-> 0,
     endpoint |-> "None", error |-> "None"]

\* function_data as create_function of main_local.py builds it
LocalFunctionData(function_id, name, runtime, handler, timeout) ==
    [id |-> function_id, name |-> name, runtime |-> runtime, handler |-> handler,
     timeout |-> timeout, version |-> 1, status |-> "deploying",
     invocation_count |-> 0, error_count |-> 0]

\* a faulty variant of UnsupportedRuntime: the request is answered 200
UnsupportedRuntimeAccepted == [code |-> 200, detail |-> "Unsupported runtime"]

\* HTTPException(status_code=400, detail=f"Unsupported runtime: {runtime}")
UnsupportedRuntime == [code |-> 400, detail |-> "Unsupported runtime"]

\* a faulty variant of FunctionNotFound: the request is answered 200
FunctionNotFoundAccepted == [code |-> 200, detail |-> "Function not found"]

\* HTTPException(status_code=404, detail="Function not found")
FunctionNotFound == [code |-> 404, detail |-> "Function not found"]

\* ------------------------------------------------------------- start-up
Init ==
    /\ server \in {"main", "advanced", "local"}
    /\ db \in (IF server # "local" THEN BOOLEAN ELSE {FALSE})
    /\ firestore = [k \in Keys |-> None]
    /\ functions_memory_store = [k \in Keys |-> None]
    /\ blobs = {}
    /\ cloud_logs = [n \in ListingNames |-> [invoked |-> 0, error |-> 0]]
    /\ function_triggers = {}
    /\ workspaces = {}
    /\ functions_store = [n \in Names |-> None]
    /\ function_versions = [n \in Names |-> None]
    /\ function_logs = [n \in Names |-> None]
    /\ creating = {}
    /\ tasks = {}
    /\ nextId = 1
    /\ calls = IF server # "local" THEN [k \in Keys |-> 0] ELSE [n \in Names |-> 0]
    /\ faults = 0
    /\ resp = [op |-> "start"]

\* ------------------------------------------------------------- Firestore
\* DocumentReference.update(changes): the document with the given fields
\* replaced (update raises NotFound on a missing document: see the callers)
FsUpdated(doc, changes) ==
    [f \in DOMAIN doc |-> IF f \in DOMAIN changes THEN changes[f] ELSE doc[f]]

\* ------------------------------------------------------------- main.py
\* a faulty variant of create_function: the record is stored before the
\* environment is parsed and the bundle uploaded, so a failing call leaves it
create_function_record_first(user_id, name, runtime, handler, timeout, bundle, envOk, uploadOk, setOk) ==
    /\ server \in {"main", "advanced"}
    /\ runtime \in RUNTIMES
    /\ nextId <= MaxIds
    /\ LET k == get_user_collection(user_id, name)
           function_data ==
               FunctionData(nextId, user_id, name, runtime, handler, timeout)
       IN /\ functions_memory_store' =
                 [functions_memory_store EXCEPT ![k] = function_data]
          /\ resp' = [op |-> "create", t |-> user_id, n |-> name,
                      runtime |-> runtime, function_id |-> nextId,
                      status |-> "deploying", version |-> 1,
                      code |-> IF envOk /\ uploadOk THEN 200 ELSE 500]
    /\ nextId' = nextId + 1
    /\ UNCHANGED <<fixedVars, diskVars, dependentVars, localVars, firestore,
                   blobs, cloud_logs, tasks, calls>>

\* POST /functions.  envOk: json.loads(environment) does not raise;
\* uploadOk: blob.upload_from_string does not raise; setOk: the Firestore
\* set() does not raise.
create_function(user_id, name, runtime, handler, timeout, bundle, envOk, uploadOk, setOk) ==
    /\ server \in {"main", "advanced"}
    /\ IF runtime \notin RUNTIMES
       THEN /\ resp' = [op |-> "create", t |-> user_id, n |-> name,
                        runtime |-> runtime] @@ UnsupportedRuntime
            /\ UNCHANGED <<mainVars, tasks, nextId, calls>>
       ELSE IF ~envOk \/ ~uploadOk
       THEN /\ resp' = [op |-> "create", t |-> user_id, n |-> name,
                        runtime |-> runtime, code |-> 500,
                        detail |-> "Deployment failed"]
            /\ UNCHANGED <<mainVars, tasks, nextId, calls>>
       ELSE /\ nextId <= MaxIds
            /\ LET function_id == nextId
                   k == get_user_collection(user_id, name)
                   function_data ==
                       FunctionData(function_id, user_id, name, runtime, handler, timeout)
                   blob == [path |-> BlobPath(user_id, name, 1, function_id),
                            content |-> bundle]
                   stored == db /\ setOk
               IN /\ blobs' = {b \in blobs : b.path # blob.path} \cup {blob}
                  /\ IF stored
                     THEN /\ firestore' = [firestore EXCEPT ![k] = function_data]
                          /\ UNCHANGED functions_memory_store
                     ELSE /\ functions_memory_store' =
                                [functions_memory_store EXCEPT ![k] = function_data]
                          /\ UNCHANGED firestore
                  /\ tasks' = tasks \cup {[name |-> name, user_id |-> user_id,
                                           id |-> function_id, pc |-> "start"]}
                  /\ nextId' = nextId + 1
                  /\ calls' = [calls EXCEPT ![k] = 0]
                  /\ resp' = [op |-> "create", t |-> user_id, n |-> name,
                              runtime |-> runtime, code |-> 200,
                              function_id |-> function_id,
                              status |-> "deploying", version |-> 1]
            /\ UNCHANGED cloud_logs
    /\ UNCHANGED <<fixedVars, diskVars, dependentVars, localVars>>

\* deploy_function_runtime up to its asyncio.sleep(3).  ok1: the update to
\* "building" does not raise for a transient reason; ok2: likewise the update
\* to "failed" of the except branch.  Either raises NotFound on a missing
\* document.
deploy_function_runtime_begin(task, ok1, ok2) ==
    /\ server = "main"
    /\ task \in tasks
    /\ task.pc = "start"
    /\ LET k == get_user_collection(task.user_id, task.name)
           ev == [op |-> "deploy", t |-> task.user_id, n |-> task.name,
                  step |-> "begin"]
       IN IF ~db
          THEN /\ tasks' = tasks \ {task}
               /\ resp' = ev @@ [outcome |-> "cannot deploy"]
               /\ UNCHANGED firestore
          ELSE IF ok1 /\ firestore[k] # None
          THEN /\ firestore' = [firestore EXCEPT
                      ![k] = FsUpdated(@, [status |-> "building"])]
               /\ tasks' = (tasks \ {task}) \cup {[task EXCEPT !.pc = "sleep"]}
               /\ resp' = ev @@ [outcome |-> "building"]
          ELSE IF ok2 /\ firestore[k] # None
          THEN /\ firestore' = [firestore EXCEPT
                      ![k] = FsUpdated(@, [status |-> "failed", error |-> "msg"])]
               /\ tasks' = tasks \ {task}
               /\ resp' = ev @@ [outcome |-> "failed"]
          ELSE /\ tasks' = tasks \ {task}
               /\ resp' = ev @@ [outcome |-> "status update failed"]
               /\ UNCHANGED firestore
    /\ UNCHANGED <<fixedVars, diskVars, dependentVars, localVars, functions_memory_store, blobs, cloud_logs,
                   nextId, calls>>

\* deploy_function_runtime after the sleep: the update to "deployed", and on
\* an exception the update to "failed".
deploy_function_runtime_finish(task, ok1, ok2) ==
    /\ server = "main"
    /\ task \in tasks
    /\ task.pc = "sleep"
    /\ LET k == get_user_collection(task.user_id, task.name)
           ev == [op |-> "deploy", t |-> task.user_id, n |-> task.name,
                  step |-> "finish"]
       IN IF ok1 /\ firestore[k] # None
          THEN /\ firestore' = [firestore EXCEPT
                      ![k] = FsUpdated(@, [status |-> "deployed", endpoint |-> "set"])]
               /\ resp' = ev @@ [outcome |-> "deployed"]
          ELSE IF ok2 /\ firestore[k] # None
          THEN /\ firestore' = [firestore EXCEPT
                      ![k] = FsUpdated(@, [status |-> "failed", error |-> "msg"])]
               /\ resp' = ev @@ [outcome |-> "failed"]
          ELSE /\ resp' = ev @@ [outcome |-> "status update failed"]
               /\ UNCHANGED firestore
    /\ tasks' = tasks \ {task}
    /\ UNCHANGED <<fixedVars, diskVars, dependentVars, localVars, functions_memory_store, blobs, cloud_logs,
                   nextId, calls>>

\* what the example handler returns for a payload: the greeting
\* f"Hello {name}!" and the event itself
HandlerResult(payload) == [message |-> <<"Hello", payload>>, event |-> payload]

\* the value standing for an exception that no "except Exception" clause of
\* the gateway catches and that leaves the request handler
Escaped == [escaped |-> "SystemExit"]

\* execute_python_function: main.py is loaded as a module and the handler
\* symbol is called with the payload; "except Exception" turns what the user
\* code raises into an error value, unless it is not a subclass of Exception
execute_python_function(bundle, handler, payload, outcome) ==
    IF "main.py" \notin bundle.files
    THEN [error |-> "main.py not found"]
    ELSE IF handler \in bundle.symbols
    THEN IF bundle.raises
         THEN IF outcome = "system_exit"
              THEN Escaped
              ELSE [error |-> "Python execution failed: boom"]
         ELSE HandlerResult(payload)
    ELSE [error |-> "Handler not found in main.py"]

\* execute_nodejs_function: the wrapper runs as a child process, with the
\* hard-coded limit of 30 seconds; outcome is how the child ends
execute_nodejs_function(bundle, handler, payload, outcome) ==
    IF "index.js" \notin bundle.files
    THEN [error |-> "index.js not found"]
    ELSE CASE outcome = "timeout" ->
                [error |-> "Node.js execution failed: timed out after 30 seconds"]
           [] outcome = "nonzero" -> [error |-> "Node.js execution failed: stderr"]
           [] outcome = "badout" -> [error |-> "Node.js execution failed: bad json"]
           [] outcome = "handler_error" -> [error |-> "handler error message"]
           [] OTHER -> HandlerResult(payload)

\* execute_function: download the bundle named by code_path, unpack it and
\* run it by runtime family.  downloadOk: download_to_filename does not raise
\* for a transient reason (it raises NotFound when the blob is gone).
execute_function(function_data, payload, downloadOk, outcome) ==
    LET found == {b \in blobs : b.path = function_data.code_path}
    IN IF found = {} \/ ~downloadOk
       THEN [error |-> "Function execution failed: download"]
       ELSE LET bundle == (CHOOSE b \in found : TRUE).content
            IN IF function_data.runtime \in PythonRuntimes
               THEN execute_python_function(bundle, function_data.handler, payload,
                                            outcome)
               ELSE IF function_data.runtime \in NodejsRuntimes
               THEN execute_nodejs_function(bundle, function_data.handler, payload, outcome)
               ELSE [error |-> "Runtime not supported for local execution"]

\* the bundle execute_function downloads for a record (None when the blob is
\* gone or the download raises)
DownloadedBundle(function_data, downloadOk) ==
    LET found == {b \in blobs : b.path = function_data.code_path}
    IN IF found = {} \/ ~downloadOk
       THEN None
       ELSE (CHOOSE b \in found : TRUE).content

\* the steps execute_function has taken when it reaches its branch on the
\* runtime, or leaves by its except clause: the temporary directory is
\* created, the download is called, and the archive is extracted once the
\* download has returned; the runtime is read only after these
execute_function_work(function_data, downloadOk) ==
    IF DownloadedBundle(function_data, downloadOk) = None
    THEN {"workspace", "fetch"}
    ELSE {"workspace", "fetch", "unpack"}

\* subprocess.run(["node", "wrapper.js"], ..., timeout=30)
NodeTimeout == 30

\* the wall-clock limit of the child process of an invocation, 0 when no
\* child process is started
execute_function_limit(function_data, downloadOk) ==
    LET bundle == DownloadedBundle(function_data, downloadOk)
    IN IF /\ bundle # None
          /\ function_data.runtime \notin PythonRuntimes
          /\ function_data.runtime \in NodejsRuntimes
          /\ "index.js" \in bundle.files
       THEN NodeTimeout
       ELSE 0

\* faulty variant of TemporaryDirectoryExit: the directory is left on disk
TemporaryDirectoryKept(dirs, dir) == dirs

\* "with tempfile.TemporaryDirectory() as temp_dir": the directory exists
\* inside the block
TemporaryDirectoryEnter(dirs, dir) == dirs \cup {dir}

\* leaving the with block, by return or by an exception: the directory and
\* what was unpacked into it are removed
TemporaryDirectoryExit(dirs, dir) == dirs \ {dir}

\* a faulty variant of InvocationResponse: a failed log entry or counter
\* update fails the request
InvocationResponseStrict(result, logOk, countOk) ==
    IF ~logOk \/ ~countOk
    THEN [code |-> 500, detail |-> "Accounting failed"]
    ELSE IF result = Escaped
    THEN [code |-> 500, detail |-> "Internal Server Error"]
    ELSE [code |-> 200, result |-> result, status |-> "success",
          execution_time |-> "45ms"]

\* what invoke_function answers once the function was found.  log_invocation
\* and the counter update sit in try/except blocks that only print (logOk,
\* countOk), so the answer is built from the result of execute_function alone
InvocationResponse(result, logOk, countOk) ==
    IF result = Escaped
    THEN [code |-> 500, detail |-> "Internal Server Error"]
    ELSE [code |-> 200, result |-> result, status |-> "success",
          execution_time |-> "45ms"]

\* the record's bundle is in the bucket and its python handler raises when
\* called
HandlerRaises(function_data) ==
    /\ function_data.runtime \in PythonRuntimes
    /\ \E b \in blobs :
          /\ b.path = function_data.code_path
          /\ "main.py" \in b.content.files
          /\ function_data.handler \in b.content.symbols
          /\ b.content.raises

\* a faulty variant of LookupFunction: the memory partition is not consulted
LookupFunctionDurableOnly(user_id, name, getOk) ==
    LET k == get_user_collection(user_id, name)
    IN IF db /\ getOk THEN firestore[k] ELSE None

\* the lookup shared by get_function, invoke_function: Firestore first, then
\* the tenant's memory partition.  getOk: the Firestore get() does not raise.
LookupFunction(user_id, name, getOk) ==
    LET k == get_user_collection(user_id, name)
    IN IF db /\ getOk /\ firestore[k] # None
       THEN firestore[k]
       ELSE functions_memory_store[k]

\* faulty variants of IncrementedCount: an invocation counted twice, and an
\* invocation whose update is lost
IncrementedCountTwice(count) == count + 2
IncrementedCountLost(count) == count

\* the invocation_count update of invoke_function: firestore.Increment(1) on
\* the document when a client exists, else += 1 in the memory partition
IncrementedCount(count) == count + 1

\* the order of the statements of invoke_function: the lookup, log_invocation,
\* the counter update, then "await execute_function"
InvokeSteps == <<"read", "log", "count", "execute">>

\* POST /functions/{name}/invoke.  logOk: logging_client exists and its
\* log_struct does not raise (otherwise the entry is only printed); incOk: the
\* Firestore update does not raise for a transient reason.  An exception that
\* is not a subclass of Exception passes the handler's "except Exception" too,
\* after the invocation was logged and counted, and the server answers 500.
invoke_function(user_id, name, payload, getOk, logOk, incOk, downloadOk, outcome) ==
    /\ server = "main"
    /\ LET k == get_user_collection(user_id, name)
           function_data == LookupFunction(user_id, name, getOk)
       IN IF function_data = None
          THEN /\ resp' = [op |-> "invoke", t |-> user_id, n |-> name]
                               @@ FunctionNotFound
               /\ UNCHANGED <<mainVars, diskVars, calls>>
          ELSE /\ calls[k] < MaxInvokes
               /\ cloud_logs' =
                     IF logOk
                     THEN [cloud_logs EXCEPT ![name].invoked = @ + 1]
                     ELSE cloud_logs
               /\ IF db
                  THEN /\ firestore' =
                            IF incOk /\ firestore[k] # None
                            THEN [firestore EXCEPT ![k].invocation_count =
                                      IncrementedCount(@)]
                            ELSE firestore
                       /\ UNCHANGED functions_memory_store
                  ELSE /\ functions_memory_store' =
                            IF functions_memory_store[k] # None
                            THEN [functions_memory_store EXCEPT
                                      ![k].invocation_count = IncrementedCount(@)]
                            ELSE functions_memory_store
                       /\ UNCHANGED firestore
               /\ calls' = [calls EXCEPT ![k] = @ + 1]
               /\ LET result == execute_function(function_data, payload,
                                                  downloadOk, outcome)
                      countOk == ~db \/ (incOk /\ firestore[k] # None)
                      dir == <<k, calls[k] + 1>>
                      ev == [op |-> "invoke", t |-> user_id, n |-> name,
                             payload |-> payload,
                             count_update_failed |-> ~countOk,
                             log_failed |-> ~logOk,
                             outcome |-> outcome,
                             steps |-> InvokeSteps,
                             work |-> execute_function_work(function_data,
                                                            downloadOk),
                             limit |-> execute_function_limit(function_data,
                                                              downloadOk)]
                  IN /\ resp' = ev @@ InvocationResponse(result, logOk, countOk)
                     /\ workspaces' =
                           TemporaryDirectoryExit(
                               TemporaryDirectoryEnter(workspaces, dir), dir)
               /\ UNCHANGED blobs
    /\ UNCHANGED <<fixedVars, dependentVars, localVars, tasks, nextId>>

\* GET /functions/{name}: the handler reads and writes nothing, so it is the
\* operator giving its response in the current state
get_function(user_id, name, getOk) ==
    LET function_data == LookupFunction(user_id, name, getOk)
    IN IF function_data = None
       THEN FunctionNotFound
       ELSE [code |-> 200, function |-> function_data]

\* the entry list_functions builds for one record
ListEntry(data) ==
    [name |-> data.name, runtime |-> data.runtime, status |-> data.status,
     version |-> data.version, invocation_count |-> data.invocation_count]

\* GET /functions, likewise read-only.  streamOk: the Firestore stream() does
\* not raise.
list_functions(user_id, streamOk) ==
    LET fromFs == IF db /\ streamOk
                  THEN {ListEntry(firestore[<<user_id, n>>]) :
                           n \in {m \in ListingNames : firestore[<<user_id, m>>] # None}}
                  ELSE {}
        fromMem == {ListEntry(functions_memory_store[<<user_id, n>>]) :
                       n \in {m \in ListingNames :
                                  functions_memory_store[<<user_id, m>>] # None}}
        functions == IF fromFs = {} THEN fromMem ELSE fromFs
    IN [code |-> 200, functions |-> functions, total |-> Cardinality(functions),
        source |-> IF db /\ functions # {} THEN "firestore" ELSE "memory"]

\* a faulty variant of RemoveRecord: the record stays where it was
RemoveRecordKept(store, k) == store

\* document(name).delete() and del functions_memory_store[user_id][name]: the
\* store without the record of the key
RemoveRecord(store, k) == [store EXCEPT ![k] = None]

\* DELETE /functions/{name}.  The existence check reads Firestore when a
\* client exists and the memory partition only when none does.  deleted: the
\* blobs removed before blob.delete raised (all of them when none raised);
\* fsDeleteOk: the Firestore delete() does not raise.
delete_function(user_id, name, force, getOk, deleted, fsDeleteOk) ==
    /\ server = "main"
    /\ LET k == get_user_collection(user_id, name)
           function_data == IF db
                            THEN IF getOk THEN firestore[k] ELSE None
                            ELSE functions_memory_store[k]
           ev == [op |-> "delete", t |-> user_id, n |-> name, force |-> force]
       IN IF function_data = None
          THEN /\ resp' = ev @@ FunctionNotFound
               /\ UNCHANGED <<firestore, functions_memory_store, blobs, calls>>
          ELSE /\ deleted \subseteq BlobsWithPrefix(user_id, name)
               /\ blobs' = blobs \ deleted
               /\ IF deleted # BlobsWithPrefix(user_id, name) \/ (db /\ ~fsDeleteOk)
                  THEN /\ resp' = ev @@ [code |-> 500,
                                         detail |-> "Failed to delete function"]
                       /\ UNCHANGED <<firestore, functions_memory_store, calls>>
                  ELSE /\ firestore' = IF db THEN RemoveRecord(firestore, k)
                                       ELSE firestore
                       /\ functions_memory_store' =
                              RemoveRecord(functions_memory_store, k)
                       /\ calls' = [calls EXCEPT ![k] = 0]
                       /\ resp' = ev @@ [code |-> 200, status |-> "deleted"]
    /\ UNCHANGED <<fixedVars, diskVars, dependentVars, localVars, cloud_logs, tasks, nextId>>

\* ------------------------------------------------------------- versions, dependents
\* the top-level collection "functions" that create_function_version and
\* main_advanced.py read: no handler of either gateway writes it, so it holds
\* no document
functions_collection(name) == None

\* functions_memory_store.get(name): the dictionary is keyed by user id, so
\* the value is the partition of the user called name, as the set of its keys
MemoryPartition(name) ==
    {k \in Keys : k[1] = name /\ functions_memory_store[k] # None}

\* POST /functions/{name}/versions of main.py and main_advanced.py.  getOk:
\* the Firestore get() does not raise.  Without a client the "function" found
\* is a user's partition, whose .get("version", 1) is 1.  The copy written to
\* function_versions is never read back by a modelled handler, and the
\* function's own record is not written.
create_function_version(name, getOk) ==
    /\ server \in {"main", "advanced"}
    /\ LET ev == [op |-> "version", n |-> name]
       IN IF db /\ ~getOk
          THEN resp' = ev @@ [code |-> 500, detail |-> "Internal Server Error"]
          ELSE IF (IF db THEN functions_collection(name) = None
                         ELSE MemoryPartition(name) = {})
          THEN resp' = ev @@ FunctionNotFound
          ELSE resp' = ev @@ [code |-> 200, version |-> 1 + 1, status |-> "created"]
    /\ UNCHANGED <<fixedVars, diskVars, dependentVars, mainVars, localVars, tasks, nextId, calls>>

\* POST /functions/{name}/triggers: the document is written only when a
\* Firestore client exists.  setOk: the set() does not raise.
create_function_trigger(name, setOk) ==
    /\ server \in {"main", "advanced"}
    /\ LET ev == [op |-> "trigger", n |-> name]
       IN IF db /\ ~setOk
          THEN /\ resp' = ev @@ [code |-> 500, detail |-> "Internal Server Error"]
               /\ UNCHANGED function_triggers
          ELSE /\ function_triggers' = IF db THEN function_triggers \cup {name}
                                       ELSE function_triggers
               /\ resp' = ev @@ [code |-> 200, status |-> "created"]
    /\ UNCHANGED <<fixedVars, diskVars, mainVars, localVars, tasks, nextId, calls>>

\* ------------------------------------------------------------- main_advanced.py
\* deploy_function_runtime of main_advanced.py: both update() calls address
\* the collection "functions", raise NotFound and are swallowed
advanced_deploy_function_runtime(task) ==
    /\ server = "advanced"
    /\ task \in tasks
    /\ tasks' = tasks \ {task}
    /\ resp' = [op |-> "deploy", t |-> task.user_id, n |-> task.name, step |-> "begin",
                outcome |-> IF db THEN "status update failed" ELSE "cannot deploy"]
    /\ UNCHANGED <<fixedVars, diskVars, dependentVars, mainVars, localVars, nextId, calls, faults>>

\* list_blobs(prefix=f"{name}/") of main_advanced.py: every blob name starts
\* with "users/"
AdvancedBlobsWithPrefix(name) == IF name = "users" THEN blobs ELSE {}

\* DELETE /functions/{name} of main_advanced.py.  With a client the document
\* read is one of "functions", so the answer is NotFound; without one the
\* function_data is the partition of the user called name, the trigger check
\* counts nothing, the blobs listed are those under f"{name}/" and the whole
\* partition is removed.  listOk: list_blobs does not raise.
advanced_delete_function(name, force, listOk) ==
    /\ server = "advanced"
    /\ LET ev == [op |-> "delete", n |-> name, force |-> force]
           found == IF db THEN functions_collection(name) # None
                    ELSE MemoryPartition(name) # {}
       IN IF ~found
          THEN /\ resp' = ev @@ FunctionNotFound
               /\ UNCHANGED <<functions_memory_store, blobs, calls>>
          ELSE IF ~listOk
          THEN /\ resp' = ev @@ [code |-> 500, detail |-> "Failed to delete function"]
               /\ UNCHANGED <<functions_memory_store, blobs, calls>>
          ELSE /\ blobs' = blobs \ AdvancedBlobsWithPrefix(name)
               /\ functions_memory_store' =
                     [k \in Keys |-> IF k[1] = name THEN None
                                     ELSE functions_memory_store[k]]
               /\ calls' = [k \in Keys |-> IF k[1] = name THEN 0 ELSE calls[k]]
               /\ resp' = ev @@ [code |-> 200, status |-> "deleted"]
    /\ UNCHANGED <<fixedVars, diskVars, dependentVars, firestore, cloud_logs, localVars,
                   tasks, nextId>>

\* ------------------------------------------------------------- main_local.py
\* a list held as a dictionary value (None stands for a missing key)
List(items) == [items |-> items]

\* add_log: the entry is appended, to a fresh list when the name has none
add_log(logs, function_name, level) ==
    [logs EXCEPT ![function_name] =
        IF @ = None THEN List(<<level>>) ELSE List(Append(@.items, level))]

\* a faulty variant of StoreLocal: the version history starts empty
StoreLocalEmptyHistory(function_data) ==
    LET name == function_data.name
    IN /\ functions_store' = [functions_store EXCEPT ![name] = function_data]
       /\ function_versions' = [function_versions EXCEPT ![name] = List(<<>>)]
       /\ function_logs' =
              add_log([function_logs EXCEPT ![name] = List(<<>>)], name, "INFO")
       /\ tasks' = tasks \cup {[name |-> name, id |-> function_data.id, pc |-> "sleep"]}
       /\ calls' = [calls EXCEPT ![name] = 0]
       /\ resp' = [op |-> "create", n |-> name, runtime |-> function_data.runtime,
                   code |-> 200, function_id |-> function_data.id,
                   status |-> "deploying", version |-> 1]

\* create_function from "functions_store[name] = function_data" to its return
StoreLocal(function_data) ==
    LET name == function_data.name
    IN /\ functions_store' = [functions_store EXCEPT ![name] = function_data]
       /\ function_versions' = [function_versions EXCEPT ![name] = List(<<1>>)]
       /\ function_logs' =
              add_log([function_logs EXCEPT ![name] = List(<<>>)], name, "INFO")
       /\ tasks' = tasks \cup {[name |-> name, id |-> function_data.id, pc |-> "sleep"]}
       /\ calls' = [calls EXCEPT ![name] = 0]
       /\ resp' = [op |-> "create", n |-> name, runtime |-> function_data.runtime,
                   code |-> 200, function_id |-> function_data.id,
                   status |-> "deploying", version |-> 1]

\* POST /functions of the local server, up to "await code.read()" when a
\* code file is sent and to the end when none is
local_create_function(name, runtime, handler, timeout, hasCode) ==
    /\ server = "local"
    /\ IF runtime \notin RUNTIMES
       THEN /\ resp' = [op |-> "create", n |-> name, runtime |-> runtime]
                            @@ UnsupportedRuntime
            /\ UNCHANGED <<localVars, tasks, nextId, calls>>
       ELSE IF functions_store[name] # None
       THEN /\ resp' = [op |-> "create", n |-> name, runtime |-> runtime,
                        code |-> 400, detail |-> "already exists"]
            /\ UNCHANGED <<localVars, tasks, nextId, calls>>
       ELSE /\ nextId <= MaxIds
            /\ nextId' = nextId + 1
            /\ LET function_data ==
                       LocalFunctionData(nextId, name, runtime, handler, timeout)
               IN IF hasCode
                  THEN /\ creating' = creating \cup {function_data}
                       /\ resp' = [op |-> "create", n |-> name, runtime |-> runtime,
                                   code |-> 0, detail |-> "reading code"]
                       /\ UNCHANGED <<functions_store, function_versions,
                                      function_logs, tasks, calls>>
                  ELSE /\ StoreLocal(function_data)
                       /\ UNCHANGED creating
    /\ UNCHANGED <<fixedVars, diskVars, dependentVars, mainVars, faults>>

\* create_function of the local server after "await code.read()"
local_create_function_stored(function_data) ==
    /\ server = "local"
    /\ function_data \in creating
    /\ creating' = creating \ {function_data}
    /\ StoreLocal(function_data)
    /\ UNCHANGED <<fixedVars, diskVars, dependentVars, mainVars, nextId, faults>>

\* deploy_function of the local server, after its asyncio.sleep(2)
deploy_function(task) ==
    /\ server = "local"
    /\ task \in tasks
    /\ tasks' = tasks \ {task}
    /\ IF functions_store[task.name] # None
       THEN /\ functions_store' = [functions_store EXCEPT ![task.name].status = "deployed"]
            /\ function_logs' = add_log(function_logs, task.name, "INFO")
            /\ resp' = [op |-> "deploy", n |-> task.name, outcome |-> "deployed"]
       ELSE /\ resp' = [op |-> "deploy", n |-> task.name, outcome |-> "gone"]
            /\ UNCHANGED <<functions_store, function_logs>>
    /\ UNCHANGED <<fixedVars, diskVars, dependentVars, mainVars, function_versions, creating, nextId, calls, faults>>

\* execute_function_simulation: the canned response of the local server
execute_function_simulation(function_data, payload) ==
    [message |-> <<"Hello from", function_data.name>>,
     runtime |-> function_data.runtime, handler |-> function_data.handler,
     input |-> payload, processed |-> TRUE]

\* the order of the statements of invoke_function of the local server: the
\* lookup with the status check, the counter, add_log, then the execution
LocalInvokeSteps == <<"read", "count", "log", "execute">>

\* POST /functions/{name}/invoke of the local server
local_invoke_function(name, payload) ==
    /\ server = "local"
    /\ LET function_data == functions_store[name]
       IN IF function_data = None
          THEN /\ resp' = [op |-> "invoke", n |-> name] @@ FunctionNotFound
               /\ UNCHANGED <<functions_store, function_logs, calls>>
          ELSE IF function_data.status # "deployed"
          THEN /\ resp' = [op |-> "invoke", n |-> name, code |-> 400,
                           detail |-> "Function is not deployed yet"]
               /\ UNCHANGED <<functions_store, function_logs, calls>>
          ELSE /\ calls[name] < MaxInvokes
               /\ functions_store' = [functions_store EXCEPT
                                         ![name].invocation_count = @ + 1]
               /\ function_logs' = add_log(function_logs, name, "INFO")
               /\ calls' = [calls EXCEPT ![name] = @ + 1]
               /\ resp' = [op |-> "invoke", n |-> name, code |-> 200,
                           result |-> execute_function_simulation(function_data, payload),
                           status |-> "success", execution_time |-> "45ms",
                           payload |-> payload, steps |-> LocalInvokeSteps]
    /\ UNCHANGED <<fixedVars, diskVars, dependentVars, mainVars, function_versions, creating, tasks, nextId, faults>>

\* GET /functions/{name} of the local server (read-only)
local_get_function(name) ==
    IF functions_store[name] = None
    THEN FunctionNotFound
    ELSE [code |-> 200, function |-> functions_store[name]]

\* GET /functions of the local server (read-only)
local_list_functions ==
    LET functions == {ListEntry(functions_store[n]) :
                         n \in {m \in Names : functions_store[m] # None}}
    IN [code |-> 200, functions |-> functions, total |-> Cardinality(functions),
        source |-> "local-memory"]

\* DELETE /functions/{name} of the local server
local_delete_function(name) ==
    /\ server = "local"
    /\ IF functions_store[name] = None
       THEN /\ resp' = [op |-> "delete", n |-> name] @@ FunctionNotFound
            /\ UNCHANGED <<functions_store, function_versions, function_logs, calls>>
       ELSE /\ functions_store' = [functions_store EXCEPT ![name] = None]
            /\ function_versions' = [function_versions EXCEPT ![name] = None]
            /\ function_logs' = [function_logs EXCEPT ![name] = None]
            /\ calls' = [calls EXCEPT ![name] = 0]
            /\ resp' = [op |-> "delete", n |-> name, code |-> 200, status |-> "deleted"]
    /\ UNCHANGED <<fixedVars, diskVars, dependentVars, mainVars, creating, tasks, nextId, faults>>

\* POST /functions/{name}/versions of the local server
create_version(name) ==
    /\ server = "local"
    /\ IF functions_store[name] = None
       THEN /\ resp' = [op |-> "version", n |-> name] @@ FunctionNotFound
            /\ UNCHANGED <<functions_store, function_versions, function_logs>>
       ELSE LET new_version == functions_store[name].version + 1
            IN /\ new_version <= 1 + MaxVersions
               /\ functions_store' = [functions_store EXCEPT ![name].version = new_version]
               /\ function_versions' = [function_versions EXCEPT
                                           ![name] = List(Append(@.items, new_version))]
               /\ function_logs' = add_log(function_logs, name, "INFO")
               /\ resp' = [op |-> "version", n |-> name, code |-> 200,
                           version |-> new_version, status |-> "created"]
    /\ UNCHANGED <<fixedVars, diskVars, dependentVars, mainVars, creating, tasks, nextId, calls, faults>>

\* the values of a flag "this external call does not raise": TRUE only where
\* the handler never makes the call or MaxFaults calls have raised already
Flag(called) == IF called /\ faults < MaxFaults THEN BOOLEAN ELSE {TRUE}

\* the external calls of one step that raise (the FALSE flags) are counted
\* against MaxFaults
Raising(flags) ==
    LET n == Cardinality({i \in DOMAIN flags : ~flags[i]})
    IN /\ faults + n <= MaxFaults
       /\ faults' = faults + n

Next ==
    \/ \E user_id \in Callers, name \in Names, upload \in Uploads,
          handler \in Handlers, timeout \in Timeouts :
          \E envOk \in (IF upload[1] \in RUNTIMES THEN BOOLEAN ELSE {TRUE}) :
          \E uploadOk \in Flag(upload[1] \in RUNTIMES /\ envOk) :
          \E setOk \in Flag(upload[1] \in RUNTIMES /\ envOk /\ uploadOk /\ db) :
          /\ Raising(<<uploadOk, setOk>>)
          /\ create_function(user_id, name, upload[1], handler, timeout, upload[2],
                             envOk, uploadOk, setOk)
    \/ \E task \in tasks :
          \E ok1 \in Flag(db) :
          \E ok2 \in Flag(db /\ ~ok1) :
          /\ Raising(<<ok1, ok2>>)
          /\ deploy_function_runtime_begin(task, ok1, ok2)
    \/ \E task \in tasks :
          \E ok1 \in Flag(TRUE) :
          \E ok2 \in Flag(~ok1) :
          /\ Raising(<<ok1, ok2>>)
          /\ deploy_function_runtime_finish(task, ok1, ok2)
    \/ \E user_id \in Invokers, name \in Names, payload \in Payloads :
          \E getOk \in Flag(db) :
          LET function_data == LookupFunction(user_id, name, getOk)
              found == function_data # None
          IN \E logOk \in Flag(found), incOk \in Flag(found /\ db),
                downloadOk \in Flag(found) :
             \E outcome \in (IF found /\ downloadOk
                                  /\ function_data.runtime \in NodejsRuntimes
                              THEN NodeOutcomes
                              ELSE IF found /\ downloadOk
                                      /\ HandlerRaises(function_data)
                              THEN PythonOutcomes ELSE {"ok"}) :
             /\ Raising(<<getOk, logOk, incOk, downloadOk>>)
             /\ invoke_function(user_id, name, payload, getOk, logOk, incOk,
                                downloadOk, outcome)
    \/ \E user_id \in Callers, name \in Names, force \in BOOLEAN :
          \E getOk \in Flag(db) :
          \E deleted \in (IF faults < MaxFaults
                           THEN SUBSET BlobsWithPrefix(user_id, name)
                           ELSE {BlobsWithPrefix(user_id, name)}) :
          \E fsDeleteOk \in Flag(db /\ deleted = BlobsWithPrefix(user_id, name)) :
             /\ Raising(<<getOk, fsDeleteOk, deleted = BlobsWithPrefix(user_id, name)>>)
             /\ delete_function(user_id, name, force, getOk, deleted, fsDeleteOk)
    \/ \E name \in Names :
          \E getOk \in Flag(db) :
          /\ Raising(<<getOk>>)
          /\ create_function_version(name, getOk)
    \/ \E task \in tasks : advanced_deploy_function_runtime(task)
    \/ \E name \in Names, force \in BOOLEAN :
          \E listOk \in Flag(~db /\ MemoryPartition(name) # {}) :
          /\ Raising(<<listOk>>)
          /\ advanced_delete_function(name, force, listOk)
    \/ \E name \in Names, upload \in Uploads, handler \in Handlers,
          timeout \in Timeouts, hasCode \in BOOLEAN :
          local_create_function(name, upload[1], handler, timeout, hasCode)
    \/ \E function_data \in creating : local_create_function_stored(function_data)
    \/ \E task \in tasks : deploy_function(task)
    \/ \E name \in Names, payload \in Payloads : local_invoke_function(name, payload)
    \/ \E name \in Names : local_delete_function(name)
    \/ \E name \in Names : create_version(name)

Spec == Init /\ [][Next]_vars

\* the requests of Next together with those that create dependent resources
NextDependents ==
    \/ Next
    \/ \E name \in Names :
          \E setOk \in Flag(db) :
          /\ Raising(<<setOk>>)
          /\ create_function_trigger(name, setOk)

SpecDependents == Init /\ [][NextDependents]_vars

\* the creates and deletes of a tenant that owns two functions
NextListing ==
    \/ \E user_id \in Callers, name \in ListingNames, upload \in Uploads,
          handler \in Handlers, timeout \in Timeouts :
          \E envOk \in (IF upload[1] \in RUNTIMES THEN BOOLEAN ELSE {TRUE}) :
          \E uploadOk \in Flag(upload[1] \in RUNTIMES /\ envOk) :
          \E setOk \in Flag(upload[1] \in RUNTIMES /\ envOk /\ uploadOk /\ db) :
          /\ Raising(<<uploadOk, setOk>>)
          /\ create_function(user_id, name, upload[1], handler, timeout, upload[2],
                             envOk, uploadOk, setOk)
    \/ \E user_id \in Callers, name \in ListingNames, force \in BOOLEAN :
          \E getOk \in Flag(db) :
          \E deleted \in (IF faults < MaxFaults
                           THEN SUBSET BlobsWithPrefix(user_id, name)
                           ELSE {BlobsWithPrefix(user_id, name)}) :
          \E fsDeleteOk \in Flag(db /\ deleted = BlobsWithPrefix(user_id, name)) :
             /\ Raising(<<getOk, fsDeleteOk, deleted = BlobsWithPrefix(user_id, name)>>)
             /\ delete_function(user_id, name, force, getOk, deleted, fsDeleteOk)

SpecListing == Init /\ [][NextListing]_vars

\* ------------------------------------------------------------- properties
\* every record held by a backend of the running gateway
AllRecords ==
    ({firestore[k] : k \in Keys} \cup {functions_memory_store[k] : k \in Keys}
       \cup {functions_store[n] : n \in Names}) \ {None}

\* the records carrying a function id
StoredBy(function_id) == {r \in AllRecords : r.id = function_id}

\* what GetFunction shows of a counter (-1 when it answers NotFound); the
\* Firestore read of the GetFunction call itself succeeds
Shown(user_id, name, counter) ==
    LET got == IF server # "local" THEN get_function(user_id, name, TRUE)
               ELSE local_get_function(name)
    IN IF got.code = 200 THEN got.function[counter] ELSE -1

\* C1: a CreateFunction call that succeeds answers version 1 and status
\* "deploying", and the record it stored has version 1, status "deploying",
\* invocation_count 0 and error_count 0 (both gateways).
C1_CreateStoresFreshRecord ==
    (resp.op = "create" /\ resp.code = 200) =>
        /\ resp.version = 1
        /\ resp.status = "deploying"
        /\ StoredBy(resp.function_id) # {}
        /\ \A r \in StoredBy(resp.function_id) :
              /\ r.version = 1
              /\ r.status = "deploying"
              /\ r.invocation_count = 0
              /\ r.error_count = 0

\* C1 happens: a create has just succeeded and its record is stored, once in
\* Firestore, once in the memory partition and once in the local dictionary
C1_Witness ==
    /\ resp.op = "create"
    /\ resp.code = 200
    /\ resp.runtime \in RUNTIMES
    /\ StoredBy(resp.function_id) # {}

\* the deploy tasks still to run for the (tenant, name) of a record
PendingFor(r) ==
    {task \in tasks :
        task.name = r.name /\ (server # "local" => task.user_id = r.user_id)}

\* C2: once the background deploy tasks of a created function have run to
\* their end (none is pending for the record's tenant and name), the record's
\* status is "deployed" or "failed", in whichever backend the record is held:
\* no record is left in "deploying" or "building".
C2_SettledOnceTaskEnded ==
    \A r \in AllRecords :
        PendingFor(r) = {} => r.status \in {"deployed", "failed"}

\* the status steps of the deployment state machine
StatusSteps ==
    {<<"deploying", "building">>, <<"building", "deployed">>, <<"building", "failed">>}

\* one record, before and after a step, moved by a step of the state machine
\* or by the reset to "deploying" of a new version
AllowedStep(old, new) ==
    (old # None /\ new # None /\ old.id = new.id /\ old.status # new.status) =>
        \/ <<old.status, new.status>> \in StatusSteps
        \/ new.version # old.version /\ new.status = "deploying"

\* C3: the status of a record changes only by deploying -> building,
\* building -> deployed, building -> failed, or the reset to deploying of a
\* new version; never from deploying directly to deployed or failed.
C3_StatusFollowsMachine ==
    [][/\ \A k \in Keys : /\ AllowedStep(firestore[k], firestore'[k])
                          /\ AllowedStep(functions_memory_store[k],
                                         functions_memory_store'[k])
       /\ \A n \in Names : AllowedStep(functions_store[n], functions_store'[n])]_vars

\* one record, before and after a step: a terminal status is kept while the
\* record stays at its version
TerminalKept(old, new) ==
    (/\ old # None /\ new # None
     /\ old.id = new.id /\ old.version = new.version
     /\ old.status \in {"deployed", "failed"}) => new.status = old.status

\* C4: once a record is "deployed" or "failed", no step changes its status
\* while its version is unchanged, whatever the interleaving of creates of the
\* same (tenant, name) with their deploy tasks.
C4_TerminalStatusIsKept ==
    [][/\ \A k \in Keys : /\ TerminalKept(firestore[k], firestore'[k])
                          /\ TerminalKept(functions_memory_store[k],
                                          functions_memory_store'[k])
       /\ \A n \in Names : TerminalKept(functions_store[n], functions_store'[n])]_vars

C6_MissingEntryCountsAnError ==
    [][\A t \in Tenants, n \in Names :
          (/\ server = "main"
           /\ resp'.op = "invoke"
           /\ resp'.code = 200
           /\ resp'.t = t
           /\ resp'.n = n
           /\ resp'.result = [error |-> "main.py not found"]) =>
              /\ "error" \in DOMAIN resp'.result
              /\ Shown(t, n, "error_count")' = Shown(t, n, "error_count") + 1]_vars

\* GetFunction shows the function as deployed
ShownDeployed(user_id, name) ==
    LET got == IF server # "local" THEN get_function(user_id, name, TRUE)
               ELSE local_get_function(name)
    IN got.code = 200 /\ got.function.status = "deployed"

\* C7: invoking a deployed function whose handler returns v for the payload
\* answers v with an execution-time field, and GetFunction then shows an
\* invocation_count one greater than before, whichever backend holds the
\* record.
C7_InvokeReturnsAndCounts ==
    [][\A t \in Tenants, n \in Names :
          (/\ resp'.op = "invoke"
           /\ resp'.code = 200
           /\ server # "local" => resp'.t = t
           /\ resp'.n = n
           /\ ShownDeployed(t, n)
           /\ resp'.result =
                 IF server # "local"
                 THEN HandlerResult(resp'.payload)
                 ELSE execute_function_simulation(functions_store[n], resp'.payload)) =>
              /\ resp'.execution_time = "45ms"
              /\ Shown(t, n, "invocation_count")'
                    = Shown(t, n, "invocation_count") + 1]_vars

ShownField(user_id, name, field) ==
    LET got == IF server # "local" THEN get_function(user_id, name, TRUE)
               ELSE local_get_function(name)
    IN IF got.code = 200 THEN got.function[field] ELSE "absent"

\* C11: CreateVersion on an existing function at version N succeeds and
\* answers N+1, for a function of any tenant in either backend; where the
\* version is a change of the record itself, every other field is kept.
C11_CreateVersionSucceeds ==
    [][\A r \in AllRecords :
          (resp'.op = "version" /\ resp'.n = r.name) =>
              /\ resp'.code = 200
              /\ resp'.version = r.version + 1
              /\ server = "local" =>
                    functions_store'[r.name] = [r EXCEPT !.version = r.version + 1]]_vars

\* C12: the version GetFunction shows for a (tenant, name) never decreases
\* from one step to the next while the function exists.
C12_VersionNeverDecreases ==
    [][\A t \in Tenants, n \in Names :
          (Shown(t, n, "version") >= 1 /\ Shown(t, n, "version")' >= 1) =>
              Shown(t, n, "version")' >= Shown(t, n, "version")]_vars

\* C13: a successful CreateVersion answers N+1 for a live record at version
\* N and leaves that record, as GetFunction shows it, at version N+1.
C13_CreateVersionAddsOne ==
    [][\A n \in Names :
          (resp'.op = "version" /\ resp'.code = 200 /\ resp'.n = n) =>
              \E t \in Tenants :
                  /\ Shown(t, n, "version") >= 1
                  /\ resp'.version = Shown(t, n, "version") + 1
                  /\ Shown(t, n, "version")' = Shown(t, n, "version") + 1]_vars

\* C14: after a successful CreateVersion the status GetFunction shows is
\* "deploying", whatever it was before.
C14_CreateVersionResetsStatus ==
    [][\A n \in Names :
          (resp'.op = "version" /\ resp'.code = 200 /\ resp'.n = n) =>
              \A t \in Tenants :
                  ShownField(t, n, "status")' \in {"deploying", "absent"}]_vars

\* GetFunction and InvokeFunction answer NotFound for (tenant, name) and
\* ListFunctions of the tenant does not contain the name, whether or not the
\* Firestore reads of these calls raise
Gone(user_id, name) ==
    IF server = "local"
    THEN /\ local_get_function(name).code = 404
         /\ \A e \in local_list_functions.functions : e.name # name
    ELSE \A readOk \in BOOLEAN :
            /\ get_function(user_id, name, readOk).code = 404
            /\ LookupFunction(user_id, name, readOk) = None
            /\ \A e \in list_functions(user_id, readOk).functions : e.name # name

\* the tenants whose function of this name a successful delete removes
DeletedTenants(r) ==
    IF server = "main" THEN {r.t}
    ELSE IF server = "advanced" THEN {t \in Tenants : t = r.n}
    ELSE Tenants

\* C15: after DeleteFunction answers success the function is gone for
\* GetFunction, InvokeFunction and ListFunctions, and a function that is gone
\* stays gone until a step of CreateFunction stores it again.
C15_DeletedStaysGone ==
    [][\A t \in Tenants, n \in Names :
          /\ (/\ resp'.op = "delete" /\ resp'.code = 200 /\ resp'.n = n
              /\ t \in DeletedTenants(resp')) => Gone(t, n)'
          /\ (Gone(t, n) /\ resp'.op # "create") => Gone(t, n)']_vars

\* C15 happens: a delete of main.py has just succeeded with a Firestore
\* client, after two creates of the name
C15_Witness ==
    /\ server = "main"
    /\ db
    /\ resp.op = "delete"
    /\ resp.code = 200
    /\ nextId > MaxIds
    /\ Gone(resp.t, resp.n)

\* the blobs of the bucket that hold a bundle of (tenant, name)
BlobsOf(user_id, name) ==
    {b \in blobs : b.path[1] = user_id /\ b.path[2] = name}

\* C16: after a successful DeleteFunction the bucket holds no blob of the
\* deleted (tenant, name), of any version.
C16_DeleteRemovesArtifacts ==
    [][\A t \in Tenants, n \in Names :
          (/\ resp'.op = "delete" /\ resp'.code = 200 /\ resp'.n = n
           /\ server # "local"
           /\ t \in DeletedTenants(resp')) => BlobsOf(t, n)' = {}]_vars

\* C17: DeleteFunction with force = false on an existing function that has a
\* dependent trigger is refused and removes neither the record nor its blobs
\* (stated for the runs in which no backend call has raised).
C17_DependentsBlockDelete ==
    [][\A t \in Tenants, n \in Names :
          (/\ server # "local"
           /\ resp'.op = "delete" /\ resp'.n = n /\ ~resp'.force
           /\ faults' = 0
           /\ t \in DeletedTenants(resp')
           /\ ~Gone(t, n)
           /\ n \in function_triggers) =>
              /\ resp'.code = 400
              /\ UNCHANGED <<firestore, functions_memory_store, blobs>>]_vars

\* C18: a (tenant, name) never has a live record in Firestore and another in
\* the memory partition at the same time.
C18_OneLiveRecord ==
    \A k \in Keys : ~(firestore[k] # None /\ functions_memory_store[k] # None)

\* C19: invocation_count and error_count as GetFunction shows them are never
\* negative and never decrease from one step to the next while the function
\* exists, a repeated CreateFunction of the name included.
C19_CountersNeverDecrease ==
    [][\A t \in Tenants, n \in Names, c \in {"invocation_count", "error_count"} :
          (Shown(t, n, c) # -1 /\ Shown(t, n, c)' # -1) =>
              /\ Shown(t, n, c) >= 0
              /\ Shown(t, n, c)' >= Shown(t, n, c)]_vars

\* C20: an invocation of a function whose python handler raises answers with
\* a result that is an error value carrying the exception's message, never
\* with a server fault (stated for the steps in which no backend call raises).
C20_HandlerFailureIsStructured ==
    [][\A t \in Tenants, n \in Names :
          (/\ server = "main"
           /\ resp'.op = "invoke" /\ resp'.t = t /\ resp'.n = n
           /\ faults' = faults
           /\ \A getOk \in BOOLEAN :
                 /\ LookupFunction(t, n, getOk) # None
                 /\ HandlerRaises(LookupFunction(t, n, getOk))) =>
              /\ resp'.code = 200
              /\ resp'.result = [error |-> "Python execution failed: boom"]]_vars

\* C21: every step that changes a record or a blob of a tenant is a step of
\* an operation issued for that tenant.
C21_TenantIsolation ==
    [][\A k \in Keys :
          (/\ server # "local"
           /\ \/ firestore'[k] # firestore[k]
              \/ functions_memory_store'[k] # functions_memory_store[k]
              \/ BlobsOf(k[1], k[2])' # BlobsOf(k[1], k[2])) =>
              /\ "t" \in DOMAIN resp'
              /\ resp'.t = k[1]]_vars

C23_SourceTagNamesBackend ==
    server # "local" =>
        \A t \in Tenants, streamOk \in BOOLEAN :
            LET listed == list_functions(t, streamOk)
                durable == /\ db
                           /\ streamOk
                           /\ \E n \in Names : firestore[<<t, n>>] # None
            IN listed.functions # {} =>
                  listed.source = IF durable THEN "firestore" ELSE "memory"

Invocable(user_id, name) ==
    {LookupFunction(user_id, name, getOk) : getOk \in BOOLEAN} \ {None}

\* C25: the invocation of a function whose runtime is neither python* nor
\* nodejs* answers with the unsupported-runtime error and has created no
\* workspace, fetched no artifact and unpacked nothing (stated for the runs
\* in which no backend call has raised).
C25_UnsupportedRuntimeDoesNoWork ==
    [][\A t \in Tenants, n \in Names :
          (/\ server = "main"
           /\ resp'.op = "invoke" /\ resp'.t = t /\ resp'.n = n
           /\ resp'.code # 404
           /\ faults' = 0
           /\ \A r \in Invocable(t, n) :
                 r.runtime \notin PythonRuntimes \cup NodejsRuntimes) =>
              /\ resp'.code = 200
              /\ resp'.result = [error |-> "Runtime not supported for local execution"]
              /\ resp'.work = {}]_vars

\* C26: the time limit of the child process of an invocation is the timeout
\* of the invoked function's record.
C26_LimitIsRecordTimeout ==
    [][\A t \in Tenants, n \in Names :
          (/\ server = "main"
           /\ resp'.op = "invoke" /\ resp'.t = t /\ resp'.n = n
           /\ resp'.code # 404
           /\ resp'.limit # 0) =>
              \E r \in Invocable(t, n) : resp'.limit = r.timeout]_vars

\* C27: a step of a deployment task in which a status write raises writes
\* nothing to the record.
C27_FailedWriteEndsAttempt ==
    [][(/\ server = "main"
        /\ resp'.op = "deploy"
        /\ faults' > faults) => firestore' = firestore]_vars

\* the part of a step's event that is the HTTP response
ResponseOf(r) ==
    [f \in DOMAIN r \cap {"code", "detail", "result", "status", "execution_time"}
        |-> r[f]]

\* C28: an invocation whose log entry or counter update failed answers what
\* an invocation with working accounting answers for the same record,
\* download and handler outcome.
C28_AccountingFailureKeepsOutcome ==
    [][\A t \in Tenants, n \in Names :
          (/\ server = "main"
           /\ resp'.op = "invoke" /\ resp'.t = t /\ resp'.n = n
           /\ resp'.code # 404
           /\ resp'.log_failed \/ resp'.count_update_failed) =>
              \E r \in Invocable(t, n), downloadOk \in BOOLEAN,
                 outcome \in NodeOutcomes \cup PythonOutcomes :
                  ResponseOf(resp') =
                      InvocationResponse(
                          execute_function(r, resp'.payload, downloadOk, outcome),
                          TRUE, TRUE)]_vars

\* C28 happens: an invocation whose log entry could not be written has
\* answered with the handler's result
C28_Witness ==
    /\ resp.op = "invoke"
    /\ resp.code = 200
    /\ resp.log_failed
    /\ resp.result = HandlerResult(resp.payload)

\* C29: a blob of the bucket stays as it was written over every step, unless
\* a delete step removes it.
C29_BlobsAreImmutable ==
    [][\A b \in blobs :
          \/ b \in blobs'
          \/ /\ resp'.op = "delete"
             /\ \A c \in blobs' : c.path # b.path]_vars

\* C29 happens: a second create of the same tenant and name, with another
\* bundle, has left the blob of the first in place
C29_Witness ==
    /\ resp.op = "create"
    /\ resp.code = 200
    /\ \E b, c \in blobs :
          /\ b.path[1] = c.path[1]
          /\ b.path[2] = c.path[2]
          /\ b.path # c.path
          /\ b.content # c.content

\* C30: GetFunction answers with the Firestore document when Firestore can be
\* read and holds one, and answers NotFound exactly when neither Firestore
\* nor the memory partition holds a record of (tenant, name).
C30_NotFoundIffNeitherHolds ==
    server # "local" =>
        \A k \in Keys, getOk \in BOOLEAN :
            LET got == get_function(k[1], k[2], getOk)
            IN /\ (db /\ getOk /\ firestore[k] # None) =>
                      (got.code = 200 /\ got.function = firestore[k])
               /\ got.code = 404 <=>
                      (firestore[k] = None /\ functions_memory_store[k] = None)

\* C31: when the node child process exits non-zero or prints what is not
\* JSON, the error of the invocation carries the child's standard error; when
\* it runs into the time limit, the error differs from the error of every
\* other way the child can end.
C31_ChildFailuresAreClassified ==
    [][(/\ server = "main"
        /\ resp'.op = "invoke"
        /\ resp'.code = 200
        /\ resp'.limit # 0) =>
           /\ resp'.outcome \in {"nonzero", "badout"} =>
                 resp'.result = [error |-> "Node.js execution failed: stderr"]
           /\ resp'.outcome = "timeout" =>
                 \A o \in NodeOutcomes \ {"timeout"} :
                    resp'.result # execute_nodejs_function(BundleNoEntry, "main",
                                                           resp'.payload, o)]_vars

\* the place of a step in the order of an invocation's steps
Position(steps, step) == CHOOSE i \in DOMAIN steps : steps[i] = step

\* C32: within an invocation the lookup comes first, the execution second,
\* and the log entry and the counter update come after the execution.
C32_AccountingFollowsExecution ==
    [][(resp'.op = "invoke" /\ resp'.code = 200) =>
           /\ Position(resp'.steps, "read") < Position(resp'.steps, "execute")
           /\ Position(resp'.steps, "execute") < Position(resp'.steps, "log")
           /\ Position(resp'.steps, "execute") < Position(resp'.steps, "count")]_vars

\* C33: an invocation answered with status "success" carries a result that
\* is not an error value.
C33_SuccessMeansNoError ==
    [][(/\ server = "main"
        /\ resp'.op = "invoke"
        /\ resp'.code = 200
        /\ resp'.status = "success") => "error" \notin DOMAIN resp'.result]_vars

\* C34: with reads that do not raise, GetFunction of a tenant finds a name
\* exactly when ListFunctions of the tenant lists it.
C34_GetAndListAgree ==
    server # "local" =>
        \A t \in Tenants, n \in ListingNames :
            get_function(t, n, TRUE).code = 200
                <=> \E e \in list_functions(t, TRUE).functions : e.name = n

\* C35: DeleteFunction with force = true of a function that GetFunction
\* returns is not answered NotFound (stated for the delete steps in which no
\* backend call raises).
C35_GettableIsDeletable ==
    [][\A t \in Tenants, n \in Names :
          (/\ server = "main"
           /\ resp'.op = "delete" /\ resp'.t = t /\ resp'.n = n
           /\ resp'.force
           /\ faults' = faults
           /\ get_function(t, n, TRUE).code = 200) => resp'.code # 404]_vars

\* C36: the code_path of every record of Firestore and of the memory store
\* names a blob of the bucket.
C36_CodePathHasBlob ==
    server # "local" =>
        \A r \in AllRecords : \E b \in blobs : b.path = r.code_path

\* C37: a step of a deployment task changes the record of its function only
\* when the record carries the function id the task was scheduled for.
C37_TaskTouchesOwnInstance ==
    [][resp'.op = "deploy" =>
          \A task \in tasks \ tasks' :
             IF server = "local"
             THEN functions_store'[task.name] # functions_store[task.name] =>
                     functions_store[task.name].id = task.id
             ELSE LET k == get_user_collection(task.user_id, task.name)
                  IN firestore'[k] # firestore[k] => firestore[k].id = task.id]_vars

\* C38: an invocation of a function whose status is not "deployed" is
\* rejected and changes no record and no log.
C38_InvokeNeedsDeployed ==
    [][\A t \in Tenants, n \in Names :
          (/\ server = "main"
           /\ resp'.op = "invoke" /\ resp'.t = t /\ resp'.n = n
           /\ resp'.code # 404
           /\ \A r \in Invocable(t, n) : r.status # "deployed") =>
              /\ resp'.code = 400
              /\ UNCHANGED <<firestore, functions_memory_store, cloud_logs>>]_vars

\* C39: a CreateFunction call that fails after the runtime check writes no
\* record to Firestore or to the memory store and schedules no task.
C39_FailedCreateWritesNothing ==
    [][(/\ server # "local"
        /\ resp'.op = "create"
        /\ resp'.code = 500) =>
           UNCHANGED <<firestore, functions_memory_store, tasks>>]_vars

\* C39 happens: a create has just failed for a name that has a record
C39_Witness ==
    /\ server = "main"
    /\ resp.op = "create"
    /\ resp.code = 500
    /\ \/ firestore[<<resp.t, resp.n>>] # None
       \/ functions_memory_store[<<resp.t, resp.n>>] # None

\* C40: in the local server a name is a key of functions_store, of
\* function_versions and of function_logs or of none of them, and the version
\* history of a function is 1, 2, ... up to the version of its record.
C40_LocalStoresAgree ==
    server = "local" =>
        \A n \in Names :
            IF functions_store[n] = None
            THEN function_versions[n] = None /\ function_logs[n] = None
            ELSE /\ function_versions[n] # None
                 /\ function_logs[n] # None
                 /\ function_versions[n].items =
                        [i \in 1..functions_store[n].version |-> i]

\* C40 happens: a function of the local server has been given a new version
\* and was deployed by its task
C40_Witness ==
    /\ server = "local"
    /\ \E n \in Names :
          /\ functions_store[n] # None
          /\ functions_store[n].version >= 2
          /\ functions_store[n].status = "deployed"
          /\ Len(function_versions[n].items) = functions_store[n].version

====
